---- MODULE Spec2Model ----
(***************************************************************************)
(* Model of the enigma crate: EnigmaChar conversion, Wiring tables and the *)
(* standard catalog, Rotor, Steckerbrett and the Enigma machine.           *)
(*                                                                         *)
(* A char is its Unicode code point, a &str is a sequence of code points,  *)
(* an Option is a set with at most one element, a Result is a record with  *)
(* a status ("Ok", "Err", or "Panic" for an unwinding call).               *)
(***************************************************************************)
EXTENDS Integers, Sequences, FiniteSets, TLC

VARIABLES ukw, rotor_l, rotor_m, rotor_r, steckerbrett,
          start, inp, out, result, nset

vars == <<ukw, rotor_l, rotor_m, rotor_r, steckerbrett,
          start, inp, out, result, nset>>

----------------------------------------------------------------------------
(* Results and errors (lib.rs: EnigmaResult, EnigmaError)                  *)

NoErr == [kind |-> "None", arg |-> <<>>]

Ok(v) == [status |-> "Ok", val |-> v, err |-> NoErr]

Err(e) == [status |-> "Err", val |-> <<>>, err |-> e]

Panic == [status |-> "Panic", val |-> <<>>, err |-> NoErr]

InvalidChar(c) == [kind |-> "InvalidChar", arg |-> c]

InvalidNumber(n) == [kind |-> "InvalidNumber", arg |-> n]

InvalidPosition(s) == [kind |-> "InvalidPosition", arg |-> s]

InvalidSteckerbrettString(s) == [kind |-> "InvalidSteckerbrettString", arg |-> s]

UnsupportedCharacter(c) == [kind |-> "UnsupportedCharacter", arg |-> c]

unwrap(r) == r.val

----------------------------------------------------------------------------
(* EnigmaChar                                                              *)

\* `value as u8`: a char cast keeps the low 8 bits of the code point
as_u8(value) == value % 256

EnigmaChar(internal, uppercase) == [internal |-> internal, uppercase |-> uppercase]

\* impl TryFrom<char> for EnigmaChar
EnigmaChar_try_from(value) ==
    LET b == as_u8(value) IN
    IF b \in 65..90 THEN Ok(EnigmaChar(b - 65, TRUE))
    ELSE IF b \in 97..122 THEN Ok(EnigmaChar(b - 97, FALSE))
    ELSE Err(InvalidChar(value))

\* impl From<&EnigmaChar> for char
char_from(c) == c.internal + (IF c.uppercase THEN 65 ELSE 97)

\* char::to_ascii_uppercase
to_ascii_uppercase(x) == IF x \in 97..122 THEN x - 32 ELSE x

----------------------------------------------------------------------------
(* Wiring and the standard catalog (wiring.rs)                             *)

\* Option<char> -> Option<u8> through EnigmaChar::try_from, as a Result
notch_from(notch) ==
    IF notch = {} THEN Ok({})
    ELSE LET r == EnigmaChar_try_from(CHOOSE x \in notch : TRUE) IN
         IF r.status = "Ok" THEN Ok({r.val.internal}) ELSE r

\* template.iter().position(|x| x.to_ascii_uppercase() == ichar), as an Option
template_position(template, ichar) ==
    LET hits == {j \in 1..Len(template) : to_ascii_uppercase(template[j]) = ichar} IN
    IF hits = {} THEN {}
    ELSE {(CHOOSE j \in hits : \A k \in hits : j <= k) - 1}

\* the loop body reporting the index counted from 1
wiring_entry_index_from_one(template, i) ==
    LET c == EnigmaChar_try_from(template[i + 1])
        ichar == char_from(EnigmaChar(i, TRUE))
        rev == template_position(template, ichar) IN
    IF c.status # "Ok" THEN c
    ELSE IF rev = {} THEN Err(InvalidNumber(i + 1))
    ELSE Ok([w |-> c.val.internal, r |-> CHOOSE j \in rev : TRUE])

\* the outcome of iteration i of the loop of Wiring::new
wiring_entry(template, i) ==
    LET c == EnigmaChar_try_from(template[i + 1])
        ichar == char_from(EnigmaChar(i, TRUE))
        rev == template_position(template, ichar) IN
    IF c.status # "Ok" THEN c
    ELSE IF rev = {} THEN Err(InvalidNumber(i))
    ELSE Ok([w |-> c.val.internal, r |-> CHOOSE j \in rev : TRUE])

\* Wiring::new filling reverse_wiring with the forward table
Wiring_new_reverse_is_forward(template, notch_1, notch_2) ==
    LET n1 == notch_from(notch_1)
        n2 == notch_from(notch_2)
        bad == {i \in 0..25 : wiring_entry(template, i).status # "Ok"} IN
    IF n1.status # "Ok" THEN n1
    ELSE IF n2.status # "Ok" THEN n2
    ELSE IF bad # {}
         THEN wiring_entry(template, CHOOSE i \in bad : \A k \in bad : i <= k)
    ELSE Ok([wiring |-> [i \in 0..25 |-> wiring_entry(template, i).val.w],
             reverse_wiring |-> [i \in 0..25 |-> wiring_entry(template, i).val.w],
             notch_1 |-> n1.val,
             notch_2 |-> n2.val])

\* Wiring::new
Wiring_new(template, notch_1, notch_2) ==
    LET n1 == notch_from(notch_1)
        n2 == notch_from(notch_2)
        bad == {i \in 0..25 : wiring_entry(template, i).status # "Ok"} IN
    IF n1.status # "Ok" THEN n1
    ELSE IF n2.status # "Ok" THEN n2
    ELSE IF bad # {}
         THEN wiring_entry(template, CHOOSE i \in bad : \A k \in bad : i <= k)
    ELSE Ok([wiring |-> [i \in 0..25 |-> wiring_entry(template, i).val.w],
             reverse_wiring |-> [i \in 0..25 |-> wiring_entry(template, i).val.r],
             notch_1 |-> n1.val,
             notch_2 |-> n2.val])

\* EKMFLGDQVZNTOWYHXUSPAIBRCJ, notches Some('Q') None
I_template ==
    <<69, 75, 77, 70, 76, 71, 68, 81, 86, 90, 78, 84, 79,
      87, 89, 72, 88, 85, 83, 80, 65, 73, 66, 82, 67, 74>>

I ==
    unwrap(Wiring_new(I_template, {81}, {}))

\* AJDKSIRUXBLHWTMCQGZNPYFVOE, notches Some('E') None
II_template ==
    <<65, 74, 68, 75, 83, 73, 82, 85, 88, 66, 76, 72, 87,
      84, 77, 67, 81, 71, 90, 78, 80, 89, 70, 86, 79, 69>>

II ==
    unwrap(Wiring_new(II_template, {69}, {}))

\* BDFHJLCPRTXVZNYEIWGAKMUSQO, notches Some('V') None
III_template ==
    <<66, 68, 70, 72, 74, 76, 67, 80, 82, 84, 88, 86, 90,
      78, 89, 69, 73, 87, 71, 65, 75, 77, 85, 83, 81, 79>>

III ==
    unwrap(Wiring_new(III_template, {86}, {}))

\* ESOVPZJAYQUIRHXLNFTGKDCMWB, notches Some('J') None
IV_template ==
    <<69, 83, 79, 86, 80, 90, 74, 65, 89, 81, 85, 73, 82,
      72, 88, 76, 78, 70, 84, 71, 75, 68, 67, 77, 87, 66>>

IV ==
    unwrap(Wiring_new(IV_template, {74}, {}))

\* VZBRGITYUPSDNHLXAWMJQOFECK, notches Some('Z') None
V_template ==
    <<86, 90, 66, 82, 71, 73, 84, 89, 85, 80, 83, 68, 78,
      72, 76, 88, 65, 87, 77, 74, 81, 79, 70, 69, 67, 75>>

V ==
    unwrap(Wiring_new(V_template, {90}, {}))

\* JPGVOUMFYQBENHZRDKASXLICTW, notches Some('Z') Some('M')
VI_template ==
    <<74, 80, 71, 86, 79, 85, 77, 70, 89, 81, 66, 69, 78,
      72, 90, 82, 68, 75, 65, 83, 88, 76, 73, 67, 84, 87>>

VI ==
    unwrap(Wiring_new(VI_template, {90}, {77}))

\* NZJHGRCXMYSWBOUFAIVLPEKQDT, notches Some('Z') Some('M')
VII_template ==
    <<78, 90, 74, 72, 71, 82, 67, 88, 77, 89, 83, 87, 66,
      79, 85, 70, 65, 73, 86, 76, 80, 69, 75, 81, 68, 84>>

VII ==
    unwrap(Wiring_new(VII_template, {90}, {77}))

\* FKQHTLXOCBJSPDZRAMEWNIUYGV, notches Some('Z') Some('M')
VIII_template ==
    <<70, 75, 81, 72, 84, 76, 88, 79, 67, 66, 74, 83, 80,
      68, 90, 82, 65, 77, 69, 87, 78, 73, 85, 89, 71, 86>>

VIII ==
    unwrap(Wiring_new(VIII_template, {90}, {77}))

\* EJMZALYXVBWFCRQUONTSPIKHGD, notches None None
UKW_A_template ==
    <<69, 74, 77, 90, 65, 76, 89, 88, 86, 66, 87, 70, 67,
      82, 81, 85, 79, 78, 84, 83, 80, 73, 75, 72, 71, 68>>

UKW_A ==
    unwrap(Wiring_new(UKW_A_template, {}, {}))

\* ARUHQSLDPXNGOKMIEBFZCWVJYT: UKW-B with A and Y wired to themselves
UKW_B_template_fixed_points ==
    <<65, 82, 85, 72, 81, 83, 76, 68, 80, 88, 78, 71, 79,
      75, 77, 73, 69, 66, 70, 90, 67, 87, 86, 74, 89, 84>>

\* YRUHQSLDPXNGOKMIEBFZCWVJAT, notches None None
UKW_B_template ==
    <<89, 82, 85, 72, 81, 83, 76, 68, 80, 88, 78, 71, 79,
      75, 77, 73, 69, 66, 70, 90, 67, 87, 86, 74, 65, 84>>

UKW_B ==
    unwrap(Wiring_new(UKW_B_template, {}, {}))

\* FVPJIAOYEDRZXWGCTKUQSBNMHL, notches None None
UKW_C_template ==
    <<70, 86, 80, 74, 73, 65, 79, 89, 69, 68, 82, 90, 88,
      87, 71, 67, 84, 75, 85, 81, 83, 66, 78, 77, 72, 76>>

UKW_C ==
    unwrap(Wiring_new(UKW_C_template, {}, {}))

\* enum StandardWiring
StandardWiring ==
    {"I", "II", "III", "IV", "V", "VI", "VII", "VIII", "UKW_A", "UKW_B", "UKW_C"}

\* impl From<StandardWiring> for Wiring
Wiring_from(w) ==
    CASE w = "I" -> I
      [] w = "II" -> II
      [] w = "III" -> III
      [] w = "IV" -> IV
      [] w = "V" -> V
      [] w = "VI" -> VI
      [] w = "VII" -> VII
      [] w = "VIII" -> VIII
      [] w = "UKW_A" -> UKW_A
      [] w = "UKW_B" -> UKW_B
      [] w = "UKW_C" -> UKW_C

----------------------------------------------------------------------------
(* Rotor (rotor.rs)                                                        *)

\* Rotor::new
Rotor_new(w) == [wiring |-> w, position |-> 0]

\* rotate without the wrap at 26
rotate_no_wrap(r) == [r EXCEPT !.position = r.position + 1]

\* Rotor::rotate
rotate(r) == [r EXCEPT !.position = (r.position + 1) % 26]

\* set_position storing the code of the capital letter
Rotor_set_position_code(r, pos) == [r EXCEPT !.position = pos.internal + 65]

\* Rotor::set_position
Rotor_set_position(r, pos) == [r EXCEPT !.position = pos.internal]

\* has_notch looking at the second notch only
has_notch_second_only(r) ==
    r.position \in r.wiring.notch_2

\* Rotor::has_notch
has_notch(r) ==
    \/ r.position \in r.wiring.notch_1
    \/ r.position \in r.wiring.notch_2

\* Rotor::get_position
Rotor_get_position(r) == EnigmaChar(r.position, TRUE)

\* get_for that does not take the position off on the way out
get_for_no_exit_offset(r, input, reversed) ==
    LET inchar == (input.internal + r.position) % 26
        table == IF reversed THEN r.wiring.reverse_wiring
                 ELSE r.wiring.wiring
        outchar == table[inchar] % 26 IN
    EnigmaChar(outchar, input.uppercase)

\* get_for taking the forward table in both directions
get_for_forward_only(r, input, reversed) ==
    LET inchar == (input.internal + r.position) % 26
        outchar == (r.wiring.wiring[inchar] + 26 - r.position) % 26 IN
    EnigmaChar(outchar, input.uppercase)

\* Rotor::get_for
get_for(r, input, reversed) ==
    LET inchar == (input.internal + r.position) % 26
        table == IF reversed THEN r.wiring.reverse_wiring
                 ELSE r.wiring.wiring
        outchar == (table[inchar] + 26 - r.position) % 26 IN
    EnigmaChar(outchar, input.uppercase)

----------------------------------------------------------------------------
(* Steckerbrett (lib.rs)                                                   *)

\* steckerbrett!(): an empty HashMap<u8, u8>
EmptySteckerbrett == << >>

\* an insert that keeps the entry already stored under the key
insert_keep_first(z, k, v) ==
    [x \in (DOMAIN z) \cup {k} |-> IF x \in DOMAIN z THEN z[x] ELSE v]

\* HashMap::insert
insert(z, k, v) == [x \in (DOMAIN z) \cup {k} |-> IF x = k THEN v ELSE z[x]]

\* a plugboard that swaps nothing
Steckerbrett_get_unplugged(z, char) == char

\* Steckerbrett::get
Steckerbrett_get(z, char) ==
    IF char.internal \in DOMAIN z
    THEN EnigmaChar(z[char.internal], char.uppercase)
    ELSE char

\* the loop of impl TryFrom<&[(char, char)]> for Steckerbrett, from pair k on
RECURSIVE insert_pairs(_, _, _)
insert_pairs(z, value, k) ==
    IF k > Len(value) THEN Ok(z)
    ELSE LET c == EnigmaChar_try_from(value[k][1])
             d == EnigmaChar_try_from(value[k][2]) IN
         IF c.status # "Ok" THEN c
         ELSE IF d.status # "Ok" THEN d
         ELSE insert_pairs(insert(insert(z, c.val.internal, d.val.internal),
                                  d.val.internal, c.val.internal),
                           value, k + 1)

\* impl TryFrom<&[(char, char)]> for Steckerbrett
Steckerbrett_try_from(value) == insert_pairs(EmptySteckerbrett, value, 1)

\* char::is_whitespace (the Unicode White_Space code points)
is_whitespace(c) ==
    c \in {9, 10, 11, 12, 13, 32, 133, 160, 5760, 8232, 8233, 8239, 8287, 12288}
          \cup (8192..8202)

\* char::len_utf8
len_utf8(c) ==
    IF c < 128 THEN 1 ELSE IF c < 2048 THEN 2 ELSE IF c < 65536 THEN 3 ELSE 4

\* str::len: the length in bytes of the UTF-8 encoding
RECURSIVE str_len(_)
str_len(s) == IF s = << >> THEN 0 ELSE len_utf8(Head(s)) + str_len(Tail(s))

\* str::split_whitespace from index i on, cur being the token under way
RECURSIVE split_from(_, _, _)
split_from(s, i, cur) ==
    LET done == IF cur = << >> THEN << >> ELSE <<cur>> IN
    IF i > Len(s) THEN done
    ELSE IF is_whitespace(s[i]) THEN done \o split_from(s, i + 1, << >>)
    ELSE split_from(s, i + 1, Append(cur, s[i]))

split_whitespace(s) == split_from(s, 1, << >>)

\* the closure taking the first char of the token twice
token_pair_first_twice(p) ==
    IF str_len(p) # 2 THEN [status |-> "None", val |-> << >>]
    ELSE IF Len(p) < 2 THEN [status |-> "Panic", val |-> << >>]
    ELSE [status |-> "Some", val |-> <<p[1], p[1]>>]

\* the closure mapped over the tokens: None when the byte length is not 2,
\* else the first two chars; the second unwrap panics when there is one char
token_pair(p) ==
    IF str_len(p) # 2 THEN [status |-> "None", val |-> << >>]
    ELSE IF Len(p) < 2 THEN [status |-> "Panic", val |-> << >>]
    ELSE [status |-> "Some", val |-> <<p[1], p[2]>>]

\* .map(..).collect::<Option<Vec<(char, char)>>>(): tokens are mapped in
\* order and the collection stops at the first None
RECURSIVE collect_pairs(_, _, _)
collect_pairs(tokens, k, acc) ==
    IF k > Len(tokens) THEN [status |-> "Some", val |-> acc]
    ELSE LET t == token_pair(tokens[k]) IN
         IF t.status # "Some" THEN t
         ELSE collect_pairs(tokens, k + 1, Append(acc, t.val))

\* impl TryFrom<&str> for Steckerbrett
Steckerbrett_try_from_str(value) ==
    LET pairs == collect_pairs(split_whitespace(value), 1, << >>) IN
    IF pairs.status = "Panic" THEN Panic
    ELSE IF pairs.status = "None" THEN Err(InvalidPosition(value))
    ELSE Steckerbrett_try_from(pairs.val)

----------------------------------------------------------------------------
(* Enigma (lib.rs).  An operation on &mut self is an operator from the     *)
(* machine to the machine after the call and the value returned.           *)

\* Enigma::standard, and Enigma::new on the wirings it converts
Enigma_standard(u, wiring_l, wiring_m, wiring_r, stecker) ==
    [ukw |-> Rotor_new(Wiring_from(u)),
     rotor_l |-> Rotor_new(Wiring_from(wiring_l)),
     rotor_m |-> Rotor_new(Wiring_from(wiring_m)),
     rotor_r |-> Rotor_new(Wiring_from(wiring_r)),
     steckerbrett |-> stecker]

Return(self, res) == [self |-> self, res |-> res]

\* one `if let Some(c) = rotor { self.rotor.set_position(&try_from(c)?)?; }`
set_rotor(self, field, rotor) ==
    IF rotor = {} THEN Return(self, Ok(<< >>))
    ELSE LET c == EnigmaChar_try_from(CHOOSE x \in rotor : TRUE) IN
         IF c.status # "Ok" THEN Return(self, c)
         ELSE Return([self EXCEPT ![field] = Rotor_set_position(@, c.val)],
                     Ok(<< >>))

\* Enigma::set_position
set_position(self, l, m, r) ==
    LET a == set_rotor(self, "rotor_l", l) IN
    IF a.res.status # "Ok" THEN a
    ELSE LET b == set_rotor(a.self, "rotor_m", m) IN
         IF b.res.status # "Ok" THEN b
         ELSE set_rotor(b.self, "rotor_r", r)

\* chars.next() for the k-th call on position.chars()
chars_next(position, k) == IF k <= Len(position) THEN {position[k]} ELSE {}

\* Enigma::set_position_str
set_position_str(self, position) ==
    IF str_len(position) # 3 THEN Return(self, Err(InvalidPosition(position)))
    ELSE set_position(self, chars_next(position, 1), chars_next(position, 2),
                      chars_next(position, 3))

\* Enigma::get_position
get_position(self) ==
    <<char_from(Rotor_get_position(self.rotor_l)),
      char_from(Rotor_get_position(self.rotor_m)),
      char_from(Rotor_get_position(self.rotor_r))>>

\* Enigma::get_position_str
get_position_str(self) == get_position(self)

\* turn_rotors reading the middle rotor's notch after the right rotor's carry
turn_rotors_no_snapshot(self) ==
    LET notch_r == has_notch(self.rotor_r)
        s1 == [self EXCEPT !.rotor_r = rotate(@)]
        s2 == IF notch_r THEN [s1 EXCEPT !.rotor_m = rotate(@)] ELSE s1
        s3 == IF has_notch(s2.rotor_m)
              THEN [s2 EXCEPT !.rotor_m = rotate(@), !.rotor_l = rotate(@)]
              ELSE s2 IN
    s3

\* Enigma::turn_rotors
turn_rotors(self) ==
    LET notch_r == has_notch(self.rotor_r)
        notch_m == has_notch(self.rotor_m)
        s1 == [self EXCEPT !.rotor_r = rotate(@)]
        s2 == IF notch_r THEN [s1 EXCEPT !.rotor_m = rotate(@)] ELSE s1
        s3 == IF notch_m
              THEN [s2 EXCEPT !.rotor_m = rotate(@), !.rotor_l = rotate(@)]
              ELSE s2 IN
    s3

\* the signal path with the plugboard on the way in only
signal_path_one_plug(self, c) ==
    LET c1 == Steckerbrett_get(self.steckerbrett, c)
        c2 == get_for(self.rotor_r, c1, FALSE)
        c3 == get_for(self.rotor_m, c2, FALSE)
        c4 == get_for(self.rotor_l, c3, FALSE)
        c5 == get_for(self.ukw, c4, FALSE)
        c6 == get_for(self.rotor_l, c5, TRUE)
        c7 == get_for(self.rotor_m, c6, TRUE) IN
    get_for(self.rotor_r, c7, TRUE)

\* the signal path entering at the left rotor and leaving at the left rotor
signal_path_left_first(self, c) ==
    LET c1 == Steckerbrett_get(self.steckerbrett, c)
        c2 == get_for(self.rotor_l, c1, FALSE)
        c3 == get_for(self.rotor_m, c2, FALSE)
        c4 == get_for(self.rotor_r, c3, FALSE)
        c5 == get_for(self.ukw, c4, FALSE)
        c6 == get_for(self.rotor_r, c5, TRUE)
        c7 == get_for(self.rotor_m, c6, TRUE)
        c8 == get_for(self.rotor_l, c7, TRUE) IN
    Steckerbrett_get(self.steckerbrett, c8)

\* the signal path of Enigma::_internal_get_for_char, after turn_rotors
signal_path(self, c) ==
    LET c1 == Steckerbrett_get(self.steckerbrett, c)
        c2 == get_for(self.rotor_r, c1, FALSE)
        c3 == get_for(self.rotor_m, c2, FALSE)
        c4 == get_for(self.rotor_l, c3, FALSE)
        c5 == get_for(self.ukw, c4, FALSE)
        c6 == get_for(self.rotor_l, c5, TRUE)
        c7 == get_for(self.rotor_m, c6, TRUE)
        c8 == get_for(self.rotor_r, c7, TRUE) IN
    Steckerbrett_get(self.steckerbrett, c8)

\* _internal_get_for_char turning the rotors before it converts the char
internal_get_for_char_turn_first(self, c) ==
    LET x == EnigmaChar_try_from(c)
        turned == turn_rotors(self) IN
    IF x.status = "Err" /\ x.err.kind = "InvalidChar"
    THEN Return(turned, Err(UnsupportedCharacter(x.err.arg)))
    ELSE Return(turned, Ok(signal_path(turned, x.val)))

\* _internal_get_for_char turning the rotors after the signal path
internal_get_for_char_turn_last(self, c) ==
    LET x == EnigmaChar_try_from(c) IN
    IF x.status = "Err" /\ x.err.kind = "InvalidChar"
    THEN Return(self, Err(UnsupportedCharacter(x.err.arg)))
    ELSE Return(turn_rotors(self), Ok(signal_path(self, x.val)))

\* Enigma::_internal_get_for_char
internal_get_for_char(self, c) ==
    LET x == EnigmaChar_try_from(c) IN
    IF x.status = "Err" /\ x.err.kind = "InvalidChar"
    THEN Return(self, Err(UnsupportedCharacter(x.err.arg)))
    ELSE LET turned == turn_rotors(self) IN
         Return(turned, Ok(signal_path(turned, x.val)))

\* Enigma::get_for_char
get_for_char(self, c) ==
    LET r == internal_get_for_char(self, c) IN
    IF r.res.status = "Ok" THEN Return(r.self, Ok(char_from(r.res.val))) ELSE r

\* the loop of Enigma::get_for_str from char k on; `enc` collects what
\* _internal_get_for_char returned for the letters
RECURSIVE get_for_str_from(_, _, _, _, _, _)
get_for_str_from(self, str, k, preserve_unsupported, preserve_case, acc) ==
    IF k > Len(str) THEN [self |-> self, res |-> Ok(acc.out), enc |-> acc.enc]
    ELSE LET arm(r, a) ==
                 IF r.res.status = "Ok"
                 THEN LET c == IF ~preserve_case
                               THEN [r.res.val EXCEPT !.uppercase = TRUE]
                               ELSE r.res.val IN
                      get_for_str_from(r.self, str, k + 1, preserve_unsupported,
                                       preserve_case,
                                       [out |-> Append(a.out, char_from(c)),
                                        enc |-> Append(a.enc, char_from(r.res.val))])
                 ELSE IF r.res.err.kind = "UnsupportedCharacter"
                 THEN get_for_str_from(r.self, str, k + 1, preserve_unsupported,
                                       preserve_case,
                                       [out |-> IF preserve_unsupported
                                                THEN Append(a.out, r.res.err.arg)
                                                ELSE a.out,
                                        enc |-> a.enc])
                 ELSE [self |-> r.self, res |-> r.res, enc |-> a.enc] IN
         \* the call for this char and the text so far are evaluated once
         CHOOSE v \in {arm(r, a) : r \in {internal_get_for_char(self, str[k])},
                                   a \in {acc}} : TRUE

\* Enigma::get_for_str
get_for_str(self, str, preserve_unsupported, preserve_case) ==
    get_for_str_from(self, str, 1, preserve_unsupported, preserve_case,
                     [out |-> << >>, enc |-> << >>])

----------------------------------------------------------------------------
(* Bounds and the inputs explored                                          *)

\* calls are made while fewer than MaxLen letters were encoded since the
\* last positioning
MaxLen == 3

\* positioning calls in one run
MaxSets == 1

\* code points 0..MaxChar are converted
MaxChar == 400

\* pairs in a pair list
MaxPairs == 2

\* chars in a plugboard string
MaxStrLen == 5

\* "AQ FR SM" as pairs, "XQ", and a list that repeats an endpoint
PairsDoc == <<<<65, 81>>, <<70, 82>>, <<83, 77>>>>

PairsXQ == <<<<88, 81>>>>

PairsRepeat == <<<<65, 66>>, <<65, 67>>>>

\* reflector, left, middle, right, plugboard pairs
Machines ==
    {<<"UKW_B", "I", "II", "III", << >>>>,
     <<"UKW_B", "I", "II", "III", PairsDoc>>,
     <<"UKW_C", "VI", "VII", "VIII", PairsXQ>>,
     <<"UKW_A", "IV", "V", "VI", PairsRepeat>>}

\* 'A' 'c' '#'
Chars == {65, 99, 35}

\* "AAT" "AET" "AEU" "ZMZ" "AA" "B#A" "\u{141}B"
PositionStrs ==
    {<<65, 65, 84>>, <<65, 69, 84>>, <<65, 69, 85>>,
     <<90, 77, 90>>, <<65, 65>>, <<66, 35, 65>>, <<321, 66>>}

\* (None, None, Some('V'))  (Some('B'), Some('#'), Some('C'))
PositionArgs == {<<{}, {}, {86}>>, <<{66}, {35}, {67}>>}

\* "test" "a\u{142}#b" (U+0142 has the low byte 0x42)
Texts == {<<116, 101, 115, 116>>, <<97, 322, 35, 98>>}

\* 'A' 'b' 'C' '#'
PlugChars == {65, 98, 67, 35}

\* a pair joins two different chars
PlugPairs == {p \in PlugChars \X PlugChars : p[1] # p[2]}

\* 'A' 'B' ' ' '#' U+00E9
StrChars == {65, 66, 32, 35, 233}

\* the leading positions of a template that are edited
MaxEdit == 3

CatalogTemplates ==
    {I_template, II_template, III_template, IV_template, V_template,
     VI_template, VII_template, VIII_template,
     UKW_A_template, UKW_B_template, UKW_C_template}

\* the template with the chars at the positions K replaced by c
Edited(t, K, c) == [k \in 1..26 |-> IF k \in K THEN c ELSE t[k]]

\* the template with the letters at the positions K in lower case
LowerAt(t, K) == [k \in 1..26 |-> IF k \in K THEN t[k] + 32 ELSE t[k]]

\* a catalog template; the same in lower case, all or in part; the same with
\* some chars replaced by its last letter (in either case), by '#' or by U+0141
TemplatesOf(t) ==
    {t, LowerAt(t, 1..26)}
    \cup {LowerAt(t, K) : K \in (SUBSET (1..MaxEdit)) \ {{}}}
    \cup {Edited(t, K, c) : K \in (SUBSET (1..MaxEdit)) \ {{}}, c \in {t[26], t[26] + 32, 35, 321}}

Templates == UNION {TemplatesOf(t) : t \in CatalogTemplates}

\* None, Some('Q'), Some('q'), Some('#')
FirstNotches == {{}, {81}, {113}, {35}}

\* None, Some('M')
SecondNotches == {{}, {77}}

\* rotate() calls made on one rotor
MaxRotations == 26

\* 'A' => 'E', 'I' => 'O', 'M' => 'L' and "AE IO ML"
PairsAeIoMl == <<<<65, 69>>, <<73, 79>>, <<77, 76>>>>
StrAeIoMl == <<65, 69, 32, 73, 79, 32, 77, 76>>

\* reflector, left, middle, right, plugboard pairs: each reflector with three
\* choices of rotors, without plugs and with the plugs A-Q F-R S-M
CatalogMachines ==
    {<<u, t[1], t[2], t[3], p>> :
        u \in {"UKW_A", "UKW_B", "UKW_C"},
        t \in {<<"I", "II", "III">>, <<"IV", "V", "VI">>, <<"VIII", "VII", "I">>},
        p \in {<< >>, PairsDoc}}

\* 'K', 'E' or 'M', and every letter for the right rotor
CatalogPositions == {<<75, m, r>> : m \in {69, 77}, r \in 65..90}

\* 'A'..'Z', 'a', 'z'
CatalogChars == (65..90) \cup {97, 122}

\* letters of the texts encoded with and without plugs
MaxTextLen == 3

\* "bida leonardovi", "agxn xyieuwbqsb", "agqn qyieuwbxsb"
BidaLeonardovi ==
    <<98, 105, 100, 97, 32, 108, 101, 111, 110, 97, 114, 100, 111, 118, 105>>
AgxnXyieuwbqsb ==
    <<97, 103, 120, 110, 32, 120, 121, 105, 101, 117, 119, 98, 113, 115, 98>>
AgqnQyieuwbxsb ==
    <<97, 103, 113, 110, 32, 113, 121, 105, 101, 117, 119, 98, 120, 115, 98>>

\* machines with plugs X-Q and with plugs A-Q F-R S-M
PluggedMachines ==
    {<<"UKW_B", "I", "II", "III", PairsXQ>>,
     <<"UKW_B", "I", "II", "III", PairsDoc>>,
     <<"UKW_C", "VI", "VII", "VIII", PairsXQ>>}

\* "AET" "ZMZ"
PluggedPositions == {<<65, 69, 84>>, <<90, 77, 90>>}

\* 'X' 'q' 'a' 'F'
PluggedChars == {88, 113, 97, 70}

SeqsUpTo(S, n) == UNION {[1..k -> S] : k \in 0..n}

----------------------------------------------------------------------------
(* The machine in use: Enigma::standard, then set_position_str,            *)
(* get_for_char and get_for_str in any order.  start, inp and out record   *)
(* the positions left by the last positioning call (or by construction)    *)
(* and the chars encoded and returned since; result is the last call.      *)

Self ==
    [ukw |-> ukw, rotor_l |-> rotor_l, rotor_m |-> rotor_m,
     rotor_r |-> rotor_r, steckerbrett |-> steckerbrett]

Positions(self) ==
    <<self.rotor_l.position, self.rotor_m.position, self.rotor_r.position>>

Becomes(self) ==
    /\ ukw' = self.ukw
    /\ rotor_l' = self.rotor_l
    /\ rotor_m' = self.rotor_m
    /\ rotor_r' = self.rotor_r
    /\ steckerbrett' = self.steckerbrett

Call(op, arg, res) == [op |-> op, arg |-> arg, res |-> res]

accepted(c) == EnigmaChar_try_from(c).status = "Ok"

Init ==
    \E m \in Machines :
       LET self == Enigma_standard(m[1], m[2], m[3], m[4],
                                   unwrap(Steckerbrett_try_from(m[5]))) IN
       /\ ukw = self.ukw
       /\ rotor_l = self.rotor_l
       /\ rotor_m = self.rotor_m
       /\ rotor_r = self.rotor_r
       /\ steckerbrett = self.steckerbrett
       /\ start = Positions(self)
       /\ inp = << >>
       /\ out = << >>
       /\ result = Call("standard", m, Ok(<< >>))
       /\ nset = 0

SetPositionStr(position) ==
    /\ nset < MaxSets
    /\ LET r == set_position_str(Self, position) IN
       /\ Becomes(r.self)
       /\ result' = Call("set_position_str", position, r.res)
       /\ start' = Positions(r.self)
    /\ inp' = << >>
    /\ out' = << >>
    /\ nset' = nset + 1

SetPosition(l, m, r) ==
    /\ nset < MaxSets
    /\ LET ret == set_position(Self, l, m, r) IN
       /\ Becomes(ret.self)
       /\ result' = Call("set_position", <<l, m, r>>, ret.res)
       /\ start' = Positions(ret.self)
    /\ inp' = << >>
    /\ out' = << >>
    /\ nset' = nset + 1

GetForChar(c) ==
    /\ Len(inp) < MaxLen
    /\ LET r == get_for_char(Self, c) IN
       /\ Becomes(r.self)
       /\ result' = Call("get_for_char", c, r.res)
       /\ inp' = IF r.res.status = "Ok" THEN Append(inp, c) ELSE inp
       /\ out' = IF r.res.status = "Ok" THEN Append(out, r.res.val) ELSE out
    /\ UNCHANGED <<start, nset>>

GetForStr(str, preserve_unsupported, preserve_case) ==
    /\ Len(inp) < MaxLen
    /\ LET r == get_for_str(Self, str, preserve_unsupported, preserve_case) IN
       /\ Becomes(r.self)
       /\ result' = Call("get_for_str",
                         [str |-> str,
                          preserve_unsupported |-> preserve_unsupported,
                          preserve_case |-> preserve_case],
                         r.res)
       /\ inp' = inp \o SelectSeq(str, accepted)
       /\ out' = out \o r.enc
    /\ UNCHANGED <<start, nset>>

Next ==
    \/ \E position \in PositionStrs : SetPositionStr(position)
    \/ \E p \in PositionArgs : SetPosition(p[1], p[2], p[3])
    \/ \E c \in Chars : GetForChar(c)
    \/ \E str \in Texts, pu \in BOOLEAN, pc \in BOOLEAN : GetForStr(str, pu, pc)

Spec == Init /\ [][Next]_vars

----------------------------------------------------------------------------------------------------------------------------------------
(* The conversions and constructors on their own: a run starts with one    *)
(* call and its argument, not yet made, and its one step makes the call    *)
(* and records what it returned.                                           *)

Pending == [status |-> "Pending", val |-> << >>, err |-> NoErr]

ConvCall ==
    \/ \E value \in 0..MaxChar :
          result = Call("EnigmaChar::try_from", value, Pending)
    \/ \E value \in SeqsUpTo(PlugPairs, MaxPairs) \cup {PairsDoc, PairsAeIoMl} :
          result = Call("Steckerbrett::try_from", value, Pending)
    \/ \E value \in SeqsUpTo(StrChars, MaxStrLen) \cup {StrAeIoMl} :
          result = Call("Steckerbrett::try_from_str", value, Pending)
    \/ \E template \in Templates, notch_1 \in FirstNotches, notch_2 \in SecondNotches :
          result = Call("Wiring::new",
                        [template |-> template, notch_1 |-> notch_1,
                         notch_2 |-> notch_2],
                        Pending)
    \/ \E w \in StandardWiring, p \in 0..25, x \in 0..25, uppercase \in BOOLEAN :
          result = Call("Rotor::get_for",
                        [wiring |-> w, position |-> p,
                         input |-> EnigmaChar(x, uppercase)],
                        Pending)
    \/ \E p \in 0..25 :
          result = Call("Rotor::rotate", [position |-> p, calls |-> 0], Pending)
    \/ \E m \in PluggedMachines, p \in PluggedPositions, preserve_case \in BOOLEAN,
          str \in SeqsUpTo(PluggedChars, MaxTextLen) \cup {BidaLeonardovi} :
          result = Call("Enigma::get_for_str",
                        [machine |-> m, position |-> p, str |-> str,
                         preserve_unsupported |-> TRUE,
                         preserve_case |-> preserve_case],
                        Pending)
    \/ \E m \in CatalogMachines, p \in CatalogPositions, c \in CatalogChars :
          result = Call("Enigma::get_for_char",
                        [machine |-> m, position |-> p, c |-> c], Pending)

\* the machine a call is made on: for a call on the Enigma the machine
\* result.arg.machine names, as Enigma::standard builds it, set to
\* result.arg.position; for the other calls UKW_B, I, II, III at AAA
ArgMachine ==
    LET onEnigma == result.op \in {"Enigma::get_for_char", "Enigma::get_for_str"}
        m == IF onEnigma THEN result.arg.machine
             ELSE <<"UKW_B", "I", "II", "III", << >>>>
        position == IF onEnigma THEN result.arg.position ELSE <<65, 65, 65>> IN
    set_position_str(Enigma_standard(m[1], m[2], m[3], m[4],
                                     unwrap(Steckerbrett_try_from(m[5]))),
                     position).self

InitConv ==
    /\ ConvCall
    /\ \E self \in {ArgMachine} :
          /\ ukw = self.ukw
          /\ rotor_l = self.rotor_l
          /\ rotor_m = self.rotor_m
          /\ rotor_r = self.rotor_r
          /\ steckerbrett = self.steckerbrett
          /\ start = Positions(self)
    /\ inp = << >>
    /\ out = << >>
    /\ nset = 0

Machine == <<ukw, rotor_l, rotor_m, rotor_r, steckerbrett, start, inp, out, nset>>

Called(op) == result.op = op /\ result.res.status = "Pending"

TryFromChar ==
    /\ Called("EnigmaChar::try_from")
    /\ result' = [result EXCEPT !.res = EnigmaChar_try_from(result.arg)]
    /\ UNCHANGED Machine

TryFromPairs ==
    /\ Called("Steckerbrett::try_from")
    /\ result' = [result EXCEPT !.res = Steckerbrett_try_from(result.arg)]
    /\ UNCHANGED Machine

TryFromStr ==
    /\ Called("Steckerbrett::try_from_str")
    /\ result' = [result EXCEPT !.res = Steckerbrett_try_from_str(result.arg)]
    /\ UNCHANGED Machine

WiringNew ==
    /\ Called("Wiring::new")
    /\ result' = [result EXCEPT !.res = Wiring_new(result.arg.template,
                                                   result.arg.notch_1,
                                                   result.arg.notch_2)]
    /\ UNCHANGED Machine

\* a rotor of the given wiring set to position p, as test_wiring sets rotor1
RotorAt(w, p) == Rotor_set_position(Rotor_new(Wiring_from(w)), EnigmaChar(p, TRUE))

\* the input passed through the rotor forward and then reversed at the same
\* position, and reversed and then forward
RotorGetFor ==
    /\ Called("Rotor::get_for")
    /\ LET r == RotorAt(result.arg.wiring, result.arg.position)
           fwd == get_for(r, result.arg.input, FALSE)
           rev == get_for(r, result.arg.input, TRUE) IN
       result' = [result EXCEPT !.res = Ok([fwd |-> fwd,
                                            fwd_rev |-> get_for(r, fwd, TRUE),
                                            rev |-> rev,
                                            rev_fwd |-> get_for(r, rev, FALSE),
                                            rotor |-> r])]
    /\ UNCHANGED Machine

\* one more rotate() on a rotor that was set to result.arg.position
RotorRotate ==
    /\ result.op = "Rotor::rotate"
    /\ result.arg.calls < MaxRotations
    /\ LET r == IF result.res.status = "Pending"
                THEN RotorAt("I", result.arg.position)
                ELSE result.res.val IN
       result' = [result EXCEPT !.arg.calls = @ + 1, !.res = Ok(rotate(r))]
    /\ UNCHANGED Machine

\* get_for_char on the machine of the call
EnigmaGetForChar ==
    /\ Called("Enigma::get_for_char")
    /\ LET r == get_for_char(Self, result.arg.c) IN
       /\ Becomes(r.self)
       /\ result' = [result EXCEPT !.res = r.res]
    /\ UNCHANGED <<start, inp, out, nset>>

\* get_for_str on the machine of the call
EnigmaGetForStr ==
    /\ Called("Enigma::get_for_str")
    /\ LET r == get_for_str(Self, result.arg.str,
                            result.arg.preserve_unsupported,
                            result.arg.preserve_case) IN
       /\ Becomes(r.self)
       /\ result' = [result EXCEPT !.res = r.res]
    /\ UNCHANGED <<start, inp, out, nset>>

NextConv ==
    \/ TryFromChar
    \/ TryFromPairs
    \/ TryFromStr
    \/ WiringNew
    \/ RotorGetFor
    \/ RotorRotate
    \/ EnigmaGetForChar
    \/ EnigmaGetForStr

SpecConv == InitConv /\ [][NextConv]_vars

----------------------------------------------------------------------------
(* Properties                                                              *)

IsLetter(c) == c \in (65..90) \cup (97..122)

\* the rotor positions named by a string of three capital letters
PositionOf(s) == <<s[1] - 65, s[2] - 65, s[3] - 65>>

Wired(u, l, m, r) ==
    /\ ukw.wiring = Wiring_from(u)
    /\ rotor_l.wiring = Wiring_from(l)
    /\ rotor_m.wiring = Wiring_from(m)
    /\ rotor_r.wiring = Wiring_from(r)

Plugged(pairs) == steckerbrett = unwrap(Steckerbrett_try_from(pairs))

Endpoints(pair) ==
    {unwrap(EnigmaChar_try_from(pair[1])).internal,
     unwrap(EnigmaChar_try_from(pair[2])).internal}

PairwiseDisjoint(pairs) ==
    \A j, k \in 1..Len(pairs) :
       j < k => Endpoints(pairs[j]) \cap Endpoints(pairs[k]) = {}

DisjointPlugboard ==
    \E m \in Machines : PairwiseDisjoint(m[5]) /\ Plugged(m[5])

\* the machine with its rotors put back to the positions p
ResetTo(self, p) ==
    set_position(self, {char_from(EnigmaChar(p[1], TRUE))},
                 {char_from(EnigmaChar(p[2], TRUE))},
                 {char_from(EnigmaChar(p[3], TRUE))}).self

\* what get_for_char returns for the chars of s, one call after the other
RECURSIVE encode_chars(_, _)
encode_chars(self, s) ==
    IF s = << >> THEN << >>
    ELSE LET r == get_for_char(self, Head(s)) IN
         <<r.res>> \o encode_chars(r.self, Tail(s))

Test == <<116, 101, 115, 116>>

Olkr == <<111, 108, 107, 114>>

Olpf == <<111, 108, 112, 102>>

\* C1: with a plugboard built from pairwise-disjoint pairs, the letters
\* returned since the last positioning, encoded again from the positions that
\* positioning left, give back the letters that were encoded, case included.
C1_SelfInverse ==
    (DisjointPlugboard /\ \A k \in 1..Len(inp) : IsLetter(inp[k]))
    => encode_chars(ResetTo(Self, start), out) = [k \in 1..Len(inp) |-> Ok(inp[k])]

C1_Witness ==
    /\ DisjointPlugboard
    /\ steckerbrett # EmptySteckerbrett
    /\ start = PositionOf(<<65, 69, 84>>)
    /\ inp = <<65, 99, 65>>
    /\ result.op = "get_for_char"

\* C2: a successful get_for_char advances the right rotor by 1, the middle
\* rotor by 1 if the right rotor was at a notch and by 1 more if the middle
\* rotor was at a notch, and the left rotor by 1 exactly if the middle rotor
\* was at a notch, the notches being read before any rotor moves; rotors
\* I/II/III go AAT -> AAU -> AAV -> ABW and AEU -> BFV.
C2_Rule ==
    (result'.op = "get_for_char" /\ result'.res.status = "Ok")
    => LET r == IF has_notch(rotor_r) THEN 1 ELSE 0
           m == IF has_notch(rotor_m) THEN 1 ELSE 0 IN
       /\ rotor_r'.position = (rotor_r.position + 1) % 26
       /\ rotor_m'.position = (rotor_m.position + r + m) % 26
       /\ rotor_l'.position = (rotor_l.position + m) % 26

C2_Scenario ==
    Wired("UKW_B", "I", "II", "III")
    => /\ (start = PositionOf(<<65, 65, 84>>) /\ Len(inp) = 1)
             => get_position_str(Self) = <<65, 65, 85>>
       /\ (start = PositionOf(<<65, 65, 84>>) /\ Len(inp) = 2)
             => get_position_str(Self) = <<65, 65, 86>>
       /\ (start = PositionOf(<<65, 65, 84>>) /\ Len(inp) = 3)
             => get_position_str(Self) = <<65, 66, 87>>
       /\ (start = PositionOf(<<65, 69, 85>>) /\ Len(inp) = 1)
             => get_position_str(Self) = <<66, 70, 86>>

C2_Stepping == [][C2_Rule]_vars /\ []C2_Scenario

C2_Witness ==
    /\ Wired("UKW_B", "I", "II", "III")
    /\ start = PositionOf(<<65, 65, 84>>)
    /\ Len(inp) = 3
    /\ result.op = "get_for_char"
    /\ get_position_str(Self) = <<65, 66, 87>>

\* C3: a get_for_char that returns an error returns UnsupportedCharacter of
\* its argument and leaves the three rotor positions as they were.
C3_Unsupported ==
    [][(result'.op = "get_for_char" /\ result'.res.status # "Ok")
       => /\ result'.res.status = "Err"
          /\ result'.res.err = UnsupportedCharacter(result'.arg)
          /\ Positions(Self') = Positions(Self)]_vars

C3_Witness ==
    /\ result.op = "get_for_char"
    /\ result.arg = 35
    /\ result.res.status = "Err"
    /\ result.res.err = UnsupportedCharacter(35)
    /\ Len(inp) > 0

\* C4: EnigmaChar::try_from succeeds exactly for the code points 65..90 and
\* 97..122 and returns InvalidChar of its argument for every other one.
C4_OnlyAsciiLetters ==
    (result.op = "EnigmaChar::try_from" /\ result.res.status # "Pending")
    => IF IsLetter(result.arg)
       THEN result.res.status = "Ok"
       ELSE /\ result.res.status = "Err"
            /\ result.res.err = InvalidChar(result.arg)

\* C5 as stated: UKW-B, I/II/III, no plugs, from AAA, "test" encodes to "olkr".
C5_TestIsOlkr ==
    (Wired("UKW_B", "I", "II", "III") /\ Plugged(<< >>)
       /\ start = PositionOf(<<65, 65, 65>>) /\ inp = Test)
    => out = Olkr

\* C5: UKW-B, I/II/III, no plugs, from AAA, "test" encodes to "olpf".
C5_TestIsOlpf ==
    (Wired("UKW_B", "I", "II", "III") /\ Plugged(<< >>)
       /\ start = PositionOf(<<65, 65, 65>>) /\ inp = Test)
    => out = Olpf

C5_Witness ==
    /\ Wired("UKW_B", "I", "II", "III")
    /\ Plugged(<< >>)
    /\ start = PositionOf(<<65, 65, 65>>)
    /\ inp = Test
    /\ result.op = "get_for_str"

\* C6: UKW-B, I/II/III, plugs A-Q F-R S-M, from AAA:
\* get_for_str("test", false, true) returns "olkr".
C6_DocExample ==
    (Wired("UKW_B", "I", "II", "III") /\ Plugged(PairsDoc)
       /\ start = PositionOf(<<65, 65, 65>>) /\ inp = Test
       /\ result.op = "get_for_str"
       /\ result.arg = [str |-> Test, preserve_unsupported |-> FALSE,
                        preserve_case |-> TRUE])
    => (result.res.status = "Ok" /\ result.res.val = Olkr)

C6_Witness ==
    /\ Wired("UKW_B", "I", "II", "III")
    /\ Plugged(PairsDoc)
    /\ start = PositionOf(<<65, 65, 65>>)
    /\ inp = Test
    /\ result.op = "get_for_str"
    /\ result.arg = [str |-> Test, preserve_unsupported |-> FALSE,
                     preserve_case |-> TRUE]
    /\ result.res.status = "Ok"

\* C7 as stated: UKW-B, I/II/III set to "AET": after one letter the position
\* string is "AEU".
C7_AetToAeu ==
    (Wired("UKW_B", "I", "II", "III")
       /\ start = PositionOf(<<65, 69, 84>>) /\ Len(inp) = 1)
    => get_position_str(Self) = <<65, 69, 85>>

\* C7: UKW-B, I/II/III set to "AET": after one letter the position string is
\* "BFU" (the middle rotor is at its notch E, so it and the left rotor step).
C7_AetToBfu ==
    (Wired("UKW_B", "I", "II", "III")
       /\ start = PositionOf(<<65, 69, 84>>) /\ Len(inp) = 1)
    => get_position_str(Self) = <<66, 70, 85>>

C7_Witness ==
    /\ Wired("UKW_B", "I", "II", "III")
    /\ start = PositionOf(<<65, 69, 84>>)
    /\ Len(inp) = 1
    /\ result.op = "get_for_char"
    /\ result.res.status = "Ok"

\* C8: in the plugboard built from a pair list, every pair (a, b) of the list
\* has get(a) = b and get(b) = a, a letter in no pair is left alone, and the
\* map is symmetric.
C8_Symmetric ==
    (result.op = "Steckerbrett::try_from" /\ result.res.status = "Ok")
    => LET z == result.res.val
           pos(c) == unwrap(EnigmaChar_try_from(c)).internal
           get(x) == Steckerbrett_get(z, EnigmaChar(x, TRUE)).internal
           paired == UNION {Endpoints(result.arg[k]) : k \in 1..Len(result.arg)} IN
       /\ \A k \in 1..Len(result.arg) :
             /\ get(pos(result.arg[k][1])) = pos(result.arg[k][2])
             /\ get(pos(result.arg[k][2])) = pos(result.arg[k][1])
       /\ \A x \in (0..25) \ paired : get(x) = x
       /\ \A x \in DOMAIN z : z[x] \in DOMAIN z /\ z[z[x]] = x

\* the string has a whitespace-delimited token that is not two letters
HasMalformedToken(s) ==
    \E k \in 1..Len(split_whitespace(s)) :
       LET p == split_whitespace(s)[k] IN
       Len(p) # 2 \/ \E i \in 1..Len(p) : ~IsLetter(p[i])

\* C9: a plugboard string with a token that is not exactly two letters fails
\* with InvalidSteckerbrettString carrying the string.
C9_MalformedString ==
    (result.op = "Steckerbrett::try_from_str" /\ result.res.status # "Pending"
       /\ HasMalformedToken(result.arg))
    => /\ result.res.status = "Err"
       /\ result.res.err.kind = "InvalidSteckerbrettString"
       /\ result.res.err.arg = result.arg

\* C10: no call on a string or a char panics.
C10_NoPanic == result.res.status # "Panic"


\* the letters of a wiring table, as the crate's test_wiring renders them
Rendered(table) == [k \in 1..26 |-> char_from(EnigmaChar(table[k - 1], TRUE))]

\* UWYGADFPVZBECKMTHXSLRINQOJ
I_reverse ==
    <<85, 87, 89, 71, 65, 68, 70, 80, 86, 90, 66, 69, 67,
      75, 77, 84, 72, 88, 83, 76, 82, 73, 78, 81, 79, 74>>

\* C11: in every Wiring that Wiring::new returns, wiring is a permutation of
\* 0..25 and reverse_wiring[wiring[i]] = i; the template of rotor I, in upper
\* or lower case, gives EKMFLGDQVZNTOWYHXUSPAIBRCJ and
\* UWYGADFPVZBECKMTHXSLRINQOJ.
C11_WiringInverse ==
    (result.op = "Wiring::new" /\ result.res.status = "Ok")
    => LET w == result.res.val IN
       /\ {w.wiring[i] : i \in 0..25} = 0..25
       /\ \A i \in 0..25 : w.reverse_wiring[w.wiring[i]] = i
       /\ result.arg.template \in {I_template, LowerAt(I_template, 1..26)}
             => /\ Rendered(w.wiring) = I_template
                /\ Rendered(w.reverse_wiring) = I_reverse

C11_Witness ==
    /\ result.op = "Wiring::new"
    /\ result.res.status = "Ok"
    /\ result.arg.template = LowerAt(I_template, 1..26)
    /\ result.res.val.notch_1 = {16}


\* the indices of the letters that occur in the template in neither case
Absent(template) ==
    {i \in 0..25 : \A k \in 1..26 : template[k] # 65 + i /\ template[k] # 97 + i}

\* a call of Wiring::new, answered, with a template of 26 ASCII letters that
\* lacks a letter of the alphabet
MalformedTemplate ==
    /\ result.op = "Wiring::new"
    /\ result.res.status # "Pending"
    /\ \A k \in 1..26 : IsLetter(result.arg.template[k])
    /\ Absent(result.arg.template) # {}

\* the error InvalidNumber(i) for the smallest absent index i, and no Wiring
SmallestAbsentReported ==
    /\ result.res.status = "Err"
    /\ result.res.err.kind = "InvalidNumber"
    /\ result.res.err.arg \in Absent(result.arg.template)
    /\ \A i \in Absent(result.arg.template) : result.res.err.arg <= i

\* C20: for every template of 26 ASCII letters in which a letter of the
\* alphabet does not occur in either case, Wiring::new returns
\* Err(InvalidNumber(i)) with i the smallest index of an absent letter, and no
\* Wiring -- whatever the notch arguments are.
C20_MalformedTemplate == MalformedTemplate => SmallestAbsentReported

\* C20, for notch arguments that are None or ASCII letters: Wiring::new
\* converts the notches before it reads the template, so only then is the
\* template's error the one returned.
C20_MalformedTemplateValidNotches ==
    (/\ MalformedTemplate
     /\ \A c \in result.arg.notch_1 \cup result.arg.notch_2 : IsLetter(c))
    => SmallestAbsentReported

\* two letters absent, a lower-case replacement, both notches given
C20_Witness ==
    /\ MalformedTemplate
    /\ SmallestAbsentReported
    /\ Cardinality(Absent(result.arg.template)) = 2
    /\ \E k \in 1..26 : result.arg.template[k] >= 97
    /\ result.arg.notch_1 = {113}
    /\ result.arg.notch_2 = {77}


\* C16: for every standard wiring, every position p in 0..25 and every letter
\* x, Rotor::get_for forward and then reversed at p returns x, and so does
\* reversed and then forward; rotor I at position A maps A to E forward and E
\* to A reversed, at position B maps A to J forward and J to A reversed.
C16_RoundTrip ==
    (result.op = "Rotor::get_for" /\ result.res.status = "Ok")
    => LET a == result.arg
           v == result.res.val
           at(p, x) == a.wiring = "I" /\ a.position = p
                       /\ a.input = EnigmaChar(x, TRUE) IN
       /\ v.fwd_rev = a.input
       /\ v.rev_fwd = a.input
       /\ at(0, 0) => v.fwd = EnigmaChar(4, TRUE)
       /\ at(0, 4) => v.rev = EnigmaChar(0, TRUE)
       /\ at(1, 0) => v.fwd = EnigmaChar(9, TRUE)
       /\ at(1, 9) => v.rev = EnigmaChar(0, TRUE)

\* rotor I at position B maps a lower-case j to a reversed, and back
C16_Witness ==
    /\ result.op = "Rotor::get_for" /\ result.res.status = "Ok"
    /\ result.arg.wiring = "I" /\ result.arg.position = 1
    /\ result.arg.input = EnigmaChar(9, FALSE)
    /\ result.res.val.rev = EnigmaChar(0, FALSE)
    /\ result.res.val.rev_fwd = EnigmaChar(9, FALSE)
    /\ result.res.val.fwd # result.arg.input

\* C17: for every start position p in 0..25, the position of a rotor after 26
\* consecutive rotate() calls is p, and after k calls with 0 < k < 26 it is
\* not p.
C17_Period26 ==
    (result.op = "Rotor::rotate" /\ result.res.status = "Ok")
    => /\ result.arg.calls = 26
             => result.res.val.position = result.arg.position
       /\ (0 < result.arg.calls /\ result.arg.calls < 26)
             => result.res.val.position # result.arg.position

\* 26 calls from position 7 end at position 7
C17_Witness ==
    /\ result.op = "Rotor::rotate" /\ result.res.status = "Ok"
    /\ result.arg.calls = 26
    /\ result.arg.position = 7
    /\ result.res.val.position = 7


\* the index 0..25 of an ASCII letter
LetterIndex(c) == IF c >= 97 THEN c - 97 ELSE c - 65

\* a call of Steckerbrett::try_from on a list of pairs of ASCII letters
LetterPairsCall ==
    /\ result.op = "Steckerbrett::try_from"
    /\ result.res.status # "Pending"
    /\ \A k \in 1..Len(result.arg) :
          IsLetter(result.arg[k][1]) /\ IsLetter(result.arg[k][2])

\* the pairs of the list that contain the letter x
PairsWith(pairs, x) ==
    {k \in 1..Len(pairs) : x \in {LetterIndex(pairs[k][1]), LetterIndex(pairs[k][2])}}

\* the partner of the letter x in the last pair of the list that contains it
LastPartner(pairs, x) ==
    LET k == CHOOSE k \in PairsWith(pairs, x) : \A j \in PairsWith(pairs, x) : j <= k IN
    IF LetterIndex(pairs[k][1]) = x THEN LetterIndex(pairs[k][2])
    ELSE LetterIndex(pairs[k][1])

\* some letter is an endpoint of more than one pair of the list
HasRepeatedEndpoint(pairs) ==
    \E x \in 0..25 : Cardinality(PairsWith(pairs, x)) > 1

\* C18: building a plugboard from a list of letter pairs never fails, also
\* when a letter occurs in more than one pair; the map has exactly the letters
\* of the list, and the entry of every letter (a repeated one, and the partner
\* an earlier pair gave it to) is its partner in the last pair that contains it.
C18_LastPairWins ==
    LetterPairsCall
    => /\ result.res.status = "Ok"
       /\ DOMAIN result.res.val = {x \in 0..25 : PairsWith(result.arg, x) # {}}
       /\ \A x \in DOMAIN result.res.val :
             result.res.val[x] = LastPartner(result.arg, x)

\* [('A','C'), ('A','b')]: A maps to B, B to A, and C still maps to A
C18_Witness ==
    /\ LetterPairsCall
    /\ result.arg = <<<<65, 67>>, <<65, 98>>>>
    /\ HasRepeatedEndpoint(result.arg)
    /\ result.res.status = "Ok"
    /\ result.res.val[0] = 1 /\ result.res.val[1] = 0 /\ result.res.val[2] = 0

\* the two-letter tokens of the pairs from pair k on, separated by one space
RECURSIVE Tokens(_, _)
Tokens(pairs, k) ==
    IF k > Len(pairs) THEN << >>
    ELSE (IF k = 1 THEN << >> ELSE <<32>>) \o pairs[k] \o Tokens(pairs, k + 1)

\* the two results are both Ok with the same map
SameMap(a, b) ==
    /\ a.status = "Ok"
    /\ b.status = "Ok"
    /\ a.val = b.val

\* C19: for every list of letter pairs, the plugboard built from the string of
\* its two-letter tokens separated by whitespace has the same map as the
\* plugboard built from the list; "AE IO ML" gives the map of
\* 'A' => 'E', 'I' => 'O', 'M' => 'L'.
C19_StringAgrees ==
    /\ LetterPairsCall
          => SameMap(Steckerbrett_try_from_str(Tokens(result.arg, 1)), result.res)
    /\ (/\ result.op = "Steckerbrett::try_from_str"
        /\ result.res.status # "Pending"
        /\ result.arg = StrAeIoMl)
          => SameMap(result.res, Steckerbrett_try_from(PairsAeIoMl))

\* "AE IO ML" has been built into the six-entry map
C19_Witness ==
    /\ result.op = "Steckerbrett::try_from_str"
    /\ result.arg = StrAeIoMl
    /\ result.res.status = "Ok"
    /\ DOMAIN result.res.val = {0, 4, 8, 11, 12, 14}
    /\ result.res.val[0] = 4 /\ result.res.val[14] = 8 /\ result.res.val[11] = 12


\* the ASCII letters of a text, in order
Letters(str) == SelectSeq(str, IsLetter)

IsUpper(c) == c \in 65..90

\* the text with its ASCII letters in upper case
Upper(str) == [k \in 1..Len(str) |-> IF str[k] \in 97..122 THEN str[k] - 32 ELSE str[k]]

\* C12: get_for_str with preserve_case = true returns a text whose k-th letter
\* has the case of the k-th letter of the input, for every input text; with
\* preserve_case = false every letter it returns is upper case; and the letters
\* returned from the same machine state are the same in both modes, case aside.
C12_CasePolicy ==
    [][(result'.op = "get_for_str" /\ result'.res.status = "Ok")
       => LET a == result'.arg
              o == Letters(result'.res.val)
              i == Letters(a.str)
              other == get_for_str(Self, a.str, a.preserve_unsupported,
                                   ~a.preserve_case).res.val IN
          /\ a.preserve_case
                => /\ Len(o) = Len(i)
                   /\ \A k \in 1..Len(o) : IsUpper(o[k]) <=> IsUpper(i[k])
          /\ ~a.preserve_case => \A k \in 1..Len(o) : IsUpper(o[k])
          /\ Upper(o) = Upper(Letters(other))]_vars


\* C13: for every string s that is not exactly three characters long,
\* set_position_str(s) returns InvalidPosition(s) and leaves the three rotor
\* positions as they were; for a string of three ASCII letters it returns Ok
\* and the left, middle and right rotor stand at the first, second and third
\* letter.
C13_LengthCheck ==
    [][result'.op = "set_position_str"
       => LET s == result'.arg IN
          /\ Len(s) # 3
                => /\ result'.res.status = "Err"
                   /\ result'.res.err.kind = "InvalidPosition"
                   /\ result'.res.err.arg = s
                   /\ Positions(Self') = Positions(Self)
          /\ (Len(s) = 3 /\ \A k \in 1..3 : IsLetter(s[k]))
                => /\ result'.res.status = "Ok"
                   /\ Positions(Self') = <<LetterIndex(s[1]), LetterIndex(s[2]),
                                           LetterIndex(s[3])>>]_vars


\* the letter c sent through plugboard, right, middle and left rotor forward,
\* reflector, left, middle and right rotor reversed, and plugboard, with the
\* rotors standing where they stand in self
PathAt(self, c) ==
    LET plug(x) == Steckerbrett_get(self.steckerbrett, x)
        fwd(r, x) == get_for(r, x, FALSE)
        rev(r, x) == get_for(r, x, TRUE)
        x == EnigmaChar(LetterIndex(c), IsUpper(c)) IN
    char_from(
        plug(rev(self.rotor_r, rev(self.rotor_m, rev(self.rotor_l,
             fwd(self.ukw,
                 fwd(self.rotor_l, fwd(self.rotor_m, fwd(self.rotor_r,
                     plug(x))))))))))

\* C14: for every letter c and every position P, get_for_char(c) started at P
\* returns c passed through plugboard, right, middle, left rotor, reflector,
\* left, middle, right rotor and plugboard at the positions that the step
\* cycle reaches from P, which are the positions the call leaves behind.
C14_RotateFirst ==
    [][(result'.op = "get_for_char" /\ result'.res.status = "Ok")
       => /\ Positions(Self') = Positions(turn_rotors(Self))
          /\ Positions(Self') # Positions(Self)
          /\ result'.res.val = PathAt(Self', result'.arg)]_vars

\* the first letter after positioning came out as the path at the stepped
\* positions gives it, and the path at the start position gives another letter
C14_Witness ==
    /\ result.op = "get_for_char"
    /\ result.res.status = "Ok"
    /\ Len(inp) = 1
    /\ Positions(Self) # start
    /\ result.res.val = PathAt(Self, result.arg)
    /\ result.res.val # PathAt(ResetTo(Self, start), result.arg)


\* the three rotors stand at positions in 0..25 and the reflector at 0
PositionsInRange ==
    /\ \A k \in 1..3 : Positions(Self)[k] \in 0..25
    /\ ukw.position = 0

\* Rotor::get_for on the rotors and the reflector as they stand returns a
\* letter in 0..25 with the case flag of its input, in both directions (for
\* the letters A, N and Z)
GetForKeepsCase ==
    \A r \in {ukw, rotor_l, rotor_m, rotor_r}, x \in {0, 13, 25},
       uppercase \in BOOLEAN, reversed \in BOOLEAN :
          LET c == get_for(r, EnigmaChar(x, uppercase), reversed) IN
          c.internal \in 0..25 /\ c.uppercase = uppercase

\* C15: after any sequence of set_position, set_position_str, get_for_char and
\* get_for_str calls, failing or not, each rotor position is in 0..25 and the
\* reflector's position is 0; the signal path leaves the positions where the
\* step cycle (or the failed conversion) left them, and Rotor::get_for keeps
\* the case flag of the letter it is given.
C15_PositionInvariant ==
    /\ [](PositionsInRange /\ GetForKeepsCase)
    /\ [][result'.op = "get_for_char"
          => Positions(Self') = IF result'.res.status = "Ok"
                                THEN Positions(turn_rotors(Self))
                                ELSE Positions(Self)]_vars

\* a failing set_position that moved the left rotor, after letters were encoded
C15_Witness ==
    /\ result.op = "set_position"
    /\ result.res.status = "Err"
    /\ Positions(Self)[1] = 1
    /\ Positions(Self)[3] > 0
    /\ PositionsInRange


\* by how many positions (mod 26) the rotor r has advanced to become q
Advance(r, q) == (q.position + 26 - r.position) % 26

\* C23: in every successful get_for_char call each of the three rotors
\* advances by 0 or 1 position (mod 26) and the right rotor by exactly 1; when
\* the right and the middle rotor are both at a notch before the call, the
\* middle rotor advances by exactly 1.
C23_OneStepPerLetter ==
    [][(result'.op = "get_for_char" /\ result'.res.status = "Ok")
       => /\ Advance(rotor_l, rotor_l') \in {0, 1}
          /\ Advance(rotor_m, rotor_m') \in {0, 1}
          /\ Advance(rotor_r, rotor_r') = 1
          /\ (has_notch(rotor_r) /\ has_notch(rotor_m))
                => Advance(rotor_m, rotor_m') = 1]_vars


\* C25: whenever set_position or set_position_str returns an error, the
\* positions of the three rotors are what they were before the call.
C25_FailedPositioning ==
    [][(/\ result'.op \in {"set_position", "set_position_str"}
        /\ result'.res.status = "Err")
       => Positions(Self') = Positions(Self)]_vars


\* the machine after n step cycles
RECURSIVE turn_times(_, _)
turn_times(self, n) == IF n = 0 THEN self ELSE turn_times(turn_rotors(self), n - 1)

\* C22: get_for_str returns Ok for every text; it leaves the rotors where n
\* step cycles take them from the positions before the call, n being the
\* number of ASCII letters of the text; with preserve_unsupported = true every
\* non-letter stands unchanged at its index of the input, with
\* preserve_unsupported = false the text returned has exactly n characters.
C22_NonLetters ==
    [][result'.op = "get_for_str"
       => LET a == result'.arg
              n == Len(Letters(a.str))
              o == result'.res.val IN
          /\ result'.res.status = "Ok"
          /\ Positions(Self') = Positions(turn_times(Self, n))
          /\ a.preserve_unsupported
                => /\ Len(o) = Len(a.str)
                   /\ \A k \in 1..Len(o) : ~IsLetter(a.str[k]) => o[k] = a.str[k]
          /\ ~a.preserve_unsupported => Len(o) = n]_vars


\* C24: on every machine of the catalog (reflector UKW-A, UKW-B or UKW-C,
\* rotors from I..VIII) with a plugboard built from pairwise-disjoint pairs of
\* distinct letters, at every position, get_for_char of an ASCII letter
\* returns a letter other than the one given, case aside.
C24_NoSelfEncoding ==
    (/\ result.op = "Enigma::get_for_char"
     /\ result.res.status # "Pending"
     /\ PairwiseDisjoint(result.arg.machine[5])
     /\ IsLetter(result.arg.c))
    => /\ result.res.status = "Ok"
       /\ IsLetter(result.res.val)
       /\ LetterIndex(result.res.val) # LetterIndex(result.arg.c)

\* a lower-case plugged letter on UKW-C, VIII / VII / I with the middle and
\* the right rotor at a notch
C24_Witness ==
    /\ result.op = "Enigma::get_for_char"
    /\ result.res.status = "Ok"
    /\ result.arg.machine = <<"UKW_C", "VIII", "VII", "I", PairsDoc>>
    /\ result.arg.position = <<75, 77, 81>>
    /\ result.arg.c = 97
    /\ result.res.val \in 98..122


\* the plugboard of the pairs applied to one char: a letter of a pair becomes
\* its partner in the same case, every other char stays
Swapped(pairs, c) ==
    IF IsLetter(c) /\ \E k \in 1..Len(pairs) : LetterIndex(c) \in Endpoints(pairs[k])
    THEN LET k == CHOOSE k \in 1..Len(pairs) : LetterIndex(c) \in Endpoints(pairs[k])
             partner == CHOOSE x \in Endpoints(pairs[k]) : x # LetterIndex(c) IN
         IF IsUpper(c) THEN 65 + partner ELSE 97 + partner
    ELSE c

\* the plugboard of the pairs applied to a text, char by char
SwappedText(pairs, str) == [k \in 1..Len(str) |-> Swapped(pairs, str[k])]

\* what the machine of result.arg returns for the text str when it has no plugs
Unplugged(str) ==
    LET m == result.arg.machine
        self == Enigma_standard(m[1], m[2], m[3], m[4], EmptySteckerbrett)
        placed == set_position_str(self, result.arg.position).self IN
    get_for_str(placed, str, result.arg.preserve_unsupported,
                result.arg.preserve_case).res.val

\* C21: for fixed wirings and start position and a plugboard S of
\* pairwise-disjoint pairs, the text the machine with S returns for s is S
\* applied char by char to the text the machine without plugs returns for
\* S(s); with plugs X-Q, "bida leonardovi" from AET gives "agxn xyieuwbqsb",
\* which is S applied to the "agqn qyieuwbxsb" of the machine without plugs.
C21_Conjugation ==
    (/\ result.op = "Enigma::get_for_str"
     /\ result.res.status # "Pending"
     /\ PairwiseDisjoint(result.arg.machine[5]))
    => LET S == result.arg.machine[5]
           s == result.arg.str IN
       /\ result.res.status = "Ok"
       /\ result.res.val = SwappedText(S, Unplugged(SwappedText(S, s)))
       /\ (/\ result.arg.machine = <<"UKW_B", "I", "II", "III", PairsXQ>>
           /\ result.arg.position = <<65, 69, 84>>
           /\ s = BidaLeonardovi
           /\ result.arg.preserve_case)
             => /\ result.res.val = AgxnXyieuwbqsb
                /\ Unplugged(s) = AgqnQyieuwbxsb

\* a text of plugged letters only, encoded to something else than the machine
\* without plugs returns for it
C21_Witness ==
    /\ result.op = "Enigma::get_for_str"
    /\ result.res.status = "Ok"
    /\ result.arg.machine = <<"UKW_B", "I", "II", "III", PairsDoc>>
    /\ result.arg.str = <<97, 113, 70>>
    /\ result.res.val # Unplugged(result.arg.str)
    /\ result.res.val = SwappedText(PairsDoc, Unplugged(SwappedText(PairsDoc, result.arg.str)))

====
